---- MODULE Spec2Model ----
(***************************************************************************)
(* ScholarSearch: the lexical (BM25) index of src/app/services/            *)
(* bm25_service.py over the papers table, as a state machine.              *)
(*                                                                         *)
(* Texts are sequences of one-character strings; tokens are strings.       *)
(* Internal positions are 1-based here (the code's position p is p+1).     *)
(* average_document_length is an exact fraction; scores are fixed-point    *)
(* numbers in units of 1/10000 (the natural logarithm is tabulated).       *)
(***************************************************************************)
EXTENDS Integers, Sequences, FiniteSets, TLC

\* ------------------------------------------------------------------ bounds

\* Largest number of documents the index holds in the model.
MaxDocs == 3

\* ------------------------------------------------------------- characters

Uppers == <<"A", "B", "C", "D", "E", "F", "G", "H", "I", "J", "K", "L", "M",
            "N", "O", "P", "Q", "R", "S", "T", "U", "V", "W", "X", "Y", "Z">>

Lowers == <<"a", "b", "c", "d", "e", "f", "g", "h", "i", "j", "k", "l", "m",
            "n", "o", "p", "q", "r", "s", "t", "u", "v", "w", "x", "y", "z">>

Digits == {"0", "1", "2", "3", "4", "5", "6", "7", "8", "9"}

Range(s) == {s[i] : i \in DOMAIN s}

\* str.lower() on one character.
LowerChar(c) ==
    IF \E i \in DOMAIN Uppers : Uppers[i] = c
    THEN Lowers[CHOOSE i \in DOMAIN Uppers : Uppers[i] = c]
    ELSE c

\* str.lower()
Lower(text) == [i \in DOMAIN text |-> LowerChar(text[i])]

AsciiLetters == Range(Lowers) \cup Range(Uppers)

\* [a-zA-Z]
IsAsciiLetter(c) == c \in AsciiLetters

\* \w of the regular expression: letters, digits and the underscore.
IsWordChar(c) == IsAsciiLetter(c) \/ c \in Digits \/ c = "_"

\* ---------------------------------------------------------------- tokenizer

stop_words ==
    {"the", "a", "an", "and", "or", "but", "in", "on", "at", "to", "for",
     "of", "with", "by", "is", "are", "was", "were", "be", "been", "being",
     "have", "has", "had", "do", "does", "did", "will", "would", "could",
     "should", "may", "might", "can", "this", "that", "these", "those"}

\* re.findall(r'\b[a-zA-Z]+\b', text): a match starts and ends at a word
\* boundary, so it is a maximal run of \w characters made of letters only.
\* cur is the run read so far, pure tells whether it holds letters only.
RECURSIVE FindAllFrom(_, _, _, _, _)
FindAllFrom(text, i, cur, pure, acc) ==
    IF i > Len(text)
    THEN IF cur # "" /\ pure THEN Append(acc, cur) ELSE acc
    ELSE IF IsWordChar(text[i])
         THEN FindAllFrom(text, i + 1, cur \o text[i],
                          pure /\ IsAsciiLetter(text[i]), acc)
         ELSE FindAllFrom(text, i + 1, "", TRUE,
                          IF cur # "" /\ pure THEN Append(acc, cur) ELSE acc)

FindAll(text) == FindAllFrom(text, 1, "", TRUE, <<>>)

\* A variant of FilterTokens that keeps the tokens longer than 3.
FilterTokens_longer_than_3(tokens) ==
    SelectSeq(tokens, LAMBDA token : token \notin stop_words /\ Len(token) > 3)

\* the tokens that are no stop word and longer than 2
FilterTokens(tokens) ==
    SelectSeq(tokens, LAMBDA token : token \notin stop_words /\ Len(token) > 2)

\* BM25Service._tokenize
Tokenize(text) ==
    IF text = <<>> THEN <<>> ELSE FilterTokens(FindAll(Lower(text)))

\* ------------------------------------------------------------------- papers

Ids == {"p1", "p2"}

\* Python's None for a text column.
None == <<"None">>

TitleDeep == <<"D", "e", "e", "p", " ", "N", "e", "t", "w", "o", "r", "k", "s">>

AbstractNetworks == <<"n", "e", "t", "w", "o", "r", "k", "s">>

TitleAttention == <<"A", "t", "t", "e", "n", "t", "i", "o", "n", " ",
                    "n", "e", "t", "w", "o", "r", "k", "s">>

\* The paper templates a client submits (PaperTemplate).
TemplateDeep ==
    [title |-> TitleDeep, abstract |-> AbstractNetworks, is_stub |-> FALSE,
     n_citation |-> 0]

TemplateAttention ==
    [title |-> TitleAttention, abstract |-> None, is_stub |-> FALSE,
     n_citation |-> 0]

TemplateStub ==
    [title |-> None, abstract |-> None, is_stub |-> TRUE, n_citation |-> 0]

Templates == {TemplateDeep, TemplateAttention, TemplateStub}

\* The submissions of the model: a paper_id with a template.
Submissions ==
    { <<"p1", TemplateDeep>>, <<"p1", TemplateAttention>>,
      <<"p2", TemplateDeep>>, <<"p2", TemplateStub>> }

\* No row for an identifier in the papers table.
NoPaper ==
    [title |-> None, abstract |-> None, is_stub |-> FALSE, n_citation |-> 0,
     absent |-> TRUE]

Row(title, abstract, is_stub, n_citation) ==
    [title |-> title, abstract |-> abstract, is_stub |-> is_stub,
     n_citation |-> n_citation, absent |-> FALSE]

\* x or ''
OrEmpty(x) == IF x = None \/ x = <<>> THEN <<>> ELSE x

\* f"{paper.title or ''} {paper.abstract or ''}"
PaperText(paper) == OrEmpty(paper.title) \o <<" ">> \o OrEmpty(paper.abstract)

\* ------------------------------------------------------------------- queries

QueryAttention ==
    <<"T", "h", "e", " ", "A", "t", "t", "e", "n", "t", "i", "o", "n", " ",
      "I", "s", " ", "A", "l", "l", " ", "Y", "o", "u", " ", "N", "e", "e", "d">>

QueryNetworks == <<"n", "e", "t", "w", "o", "r", "k", "s">>

QueryNoTokens ==
    <<"I", "s", " ", "i", "t", " ", "c", "o", "_", "o", "p", " ", "x", "2", "?">>

\* A query with a term of each paper of the model.
QueryDeepAttention ==
    <<"D", "e", "e", "p", " ", "A", "t", "t", "e", "n", "t", "i", "o", "n">>

Queries ==
    {QueryAttention, QueryNetworks, QueryNoTokens, <<>>}

\* The searches of the model: a query with a limit. The limit is any
\* integer (main.py passes size * 2 of an unvalidated size).
Requests ==
    { <<QueryAttention, -1>>, <<QueryAttention, MaxDocs>>,
      <<QueryNetworks, -1>>, <<QueryNetworks, 0>>, <<QueryNetworks, 1>>,
      <<QueryNetworks, MaxDocs>>,
      <<QueryNoTokens, 1>>, << <<>>, 1 >> }

\* The texts the model tokenizes: the queries and the texts of the papers.
Texts ==
    Queries \cup {QueryDeepAttention} \cup {PaperText(t) : t \in Templates}

\* _tokenize on the texts of the model, computed once.
TokenTable == [text \in Texts |-> Tokenize(text)]

\* self._tokenize(text)
tokenize(text) == TokenTable[text]

\* A paper object: a row of the papers table with its identifier.
PaperOf(id, row) ==
    [id |-> id, title |-> row.title, abstract |-> row.abstract,
     is_stub |-> row.is_stub]

\* ---------------------------------------------------------------- fractions

RECURSIVE Gcd(_, _)
Gcd(a, b) == IF b = 0 THEN a ELSE Gcd(b, a % b)

\* n / d for n >= 0 and d > 0, in lowest terms.
Frac(n, d) == [num |-> n \div Gcd(n, d), den |-> d \div Gcd(n, d)]

\* The number 0 (avg_doc_length = 0).
Zero == [num |-> 0, den |-> 1]

RECURSIVE Sum(_)
Sum(s) == IF s = <<>> THEN 0 ELSE Sum(SubSeq(s, 1, Len(s) - 1)) + s[Len(s)]

\* sum(self.doc_lengths) / len(self.doc_lengths)
Mean(lengths) == Frac(Sum(lengths), Len(lengths))

\* ------------------------------------------------------------ the BM25 index

\* term frequency saturation parameter k1 = K1Num / K1Den = 1.2
K1Num == 12

K1Den == 10

\* length normalization parameter b = BNum / BDen = 0.75
BNum == 3

BDen == 4

\* An empty dict.
EmptyMap == [t \in {} |-> 0]

\* f[k] = v on a dict
Put(f, k, v) == [x \in DOMAIN f \cup {k} |-> IF x = k THEN v ELSE f[x]]

\* del s[i]
DelAt(s, i) == SubSeq(s, 1, i - 1) \o SubSeq(s, i + 1, Len(s))

\* term_counts of one document: term -> number of occurrences
TermCounts(tokens) ==
    [t \in Range(tokens) |-> Cardinality({i \in DOMAIN tokens : tokens[i] = t})]

\* A variant of IndexTerms that adds the occurrences to doc_freq[term].
IndexTerms_counting_occurrences(tf, df, doc_index, tokens) ==
    LET tc == TermCounts(tokens)
    IN  [term_freq |->
            [t \in DOMAIN tf \cup DOMAIN tc |->
                IF t \in DOMAIN tc
                THEN Put(IF t \in DOMAIN tf THEN tf[t] ELSE EmptyMap,
                         doc_index, tc[t])
                ELSE tf[t]],
         doc_freq |->
            [t \in DOMAIN df \cup DOMAIN tc |->
                IF t \in DOMAIN tc
                THEN (IF t \in DOMAIN df THEN df[t] ELSE 0) + tc[t]
                ELSE df[t]]]

\* The postings loop for one document: for every term of the document,
\* term_freq[term][doc_index] = freq and doc_freq[term] += 1.
IndexTerms(tf, df, doc_index, tokens) ==
    LET tc == TermCounts(tokens)
    IN  [term_freq |->
            [t \in DOMAIN tf \cup DOMAIN tc |->
                IF t \in DOMAIN tc
                THEN Put(IF t \in DOMAIN tf THEN tf[t] ELSE EmptyMap,
                         doc_index, tc[t])
                ELSE tf[t]],
         doc_freq |->
            [t \in DOMAIN df \cup DOMAIN tc |->
                IF t \in DOMAIN tc
                THEN (IF t \in DOMAIN df THEN df[t] ELSE 0) + 1
                ELSE df[t]]]

\* The same loop on a pair of dicts.
IndexTermsOf(r, doc_index, tokens) ==
    IndexTerms(r.term_freq, r.doc_freq, doc_index, tokens)

\* BM25Service._update_indexes_for_paper
update_indexes_for_paper(self, doc_index, tokens) ==
    LET r == IndexTerms(self.term_freq, self.doc_freq, doc_index, tokens)
    IN  [self EXCEPT !.term_freq = r.term_freq,
                     !.doc_freq = r.doc_freq,
                     !.total_docs = Len(self.documents)]

\* The loop of _build_term_indexes over the first k documents.
RECURSIVE BuildTermsUpTo(_, _)
BuildTermsUpTo(documents, k) ==
    IF k = 0
    THEN [term_freq |-> EmptyMap, doc_freq |-> EmptyMap]
    ELSE IndexTermsOf(BuildTermsUpTo(documents, k - 1), k, documents[k])

\* BM25Service._build_term_indexes
build_term_indexes(self) ==
    LET r == BuildTermsUpTo(self.documents, Len(self.documents))
    IN  [self EXCEPT !.term_freq = r.term_freq,
                     !.doc_freq = r.doc_freq,
                     !.total_docs = Len(self.documents)]

\* BM25Service._build_index over the rows the query returned, in its order.
build_index(papers) ==
    LET docs == [i \in DOMAIN papers |-> tokenize(PaperText(papers[i]))]
        lens == [i \in DOMAIN papers |-> Len(docs[i])]
    IN  build_term_indexes(
            [documents |-> docs,
             paper_ids |-> [i \in DOMAIN papers |-> papers[i].id],
             doc_lengths |-> lens,
             avg_doc_length |-> IF lens # <<>> THEN Mean(lens) ELSE Zero,
             term_freq |-> EmptyMap,
             doc_freq |-> EmptyMap,
             total_docs |-> 0])

\* A variant of add_paper that records the length of the text, not the
\* number of tokens.
add_paper_length_of_text(self, paper) ==
    LET tokens == tokenize(PaperText(paper))
        lens == Append(self.doc_lengths, Len(PaperText(paper)))
        appended == [self EXCEPT !.documents = Append(self.documents, tokens),
                                 !.paper_ids = Append(self.paper_ids, paper.id),
                                 !.doc_lengths = lens,
                                 !.avg_doc_length = Mean(lens)]
    IN  update_indexes_for_paper(appended, Len(appended.documents), tokens)

\* A variant of add_paper that leaves avg_doc_length as it was.
add_paper_keeping_average(self, paper) ==
    LET tokens == tokenize(PaperText(paper))
        lens == Append(self.doc_lengths, Len(tokens))
        appended == [self EXCEPT !.documents = Append(self.documents, tokens),
                                 !.paper_ids = Append(self.paper_ids, paper.id),
                                 !.doc_lengths = lens]
    IN  update_indexes_for_paper(appended, Len(appended.documents), tokens)

\* BM25Service.add_paper
add_paper(self, paper) ==
    LET tokens == tokenize(PaperText(paper))
        lens == Append(self.doc_lengths, Len(tokens))
        appended == [self EXCEPT !.documents = Append(self.documents, tokens),
                                 !.paper_ids = Append(self.paper_ids, paper.id),
                                 !.doc_lengths = lens,
                                 !.avg_doc_length = Mean(lens)]
    IN  update_indexes_for_paper(appended, Len(appended.documents), tokens)

\* self.paper_ids.index(paper_id): the first position holding it
IndexOf(paper_ids, paper_id) ==
    CHOOSE i \in DOMAIN paper_ids :
        /\ paper_ids[i] = paper_id
        /\ \A j \in 1..(i - 1) : paper_ids[j] # paper_id

\* A variant of remove_paper that deletes the list entries and leaves the
\* postings as they were.
remove_paper_without_rebuild(self, paper_id) ==
    IF paper_id \notin Range(self.paper_ids)
    THEN self
    ELSE LET doc_index == IndexOf(self.paper_ids, paper_id)
             lens == DelAt(self.doc_lengths, doc_index)
             deleted == [self EXCEPT
                            !.documents = DelAt(self.documents, doc_index),
                            !.paper_ids = DelAt(self.paper_ids, doc_index),
                            !.doc_lengths = lens,
                            !.total_docs = Len(lens)]
         IN  IF lens # <<>>
             THEN [deleted EXCEPT !.avg_doc_length = Mean(lens)]
             ELSE deleted

\* A variant of remove_paper that takes an unknown identifier for the last
\* position (a search that answers -1).
remove_paper_unknown_drops_last(self, paper_id) ==
    LET doc_index == IF paper_id \in Range(self.paper_ids)
                     THEN IndexOf(self.paper_ids, paper_id)
                     ELSE Len(self.paper_ids)
    IN  IF self.paper_ids = <<>>
        THEN self
        ELSE LET lens == DelAt(self.doc_lengths, doc_index)
                 deleted == [self EXCEPT
                                !.documents = DelAt(self.documents, doc_index),
                                !.paper_ids = DelAt(self.paper_ids, doc_index),
                                !.doc_lengths = lens]
                 rebuilt == build_term_indexes(deleted)
             IN  IF lens # <<>>
                 THEN [rebuilt EXCEPT !.avg_doc_length = Mean(lens)]
                 ELSE rebuilt

\* BM25Service.remove_paper; an unknown identifier takes the ValueError
\* branch, which only prints.
remove_paper(self, paper_id) ==
    IF paper_id \notin Range(self.paper_ids)
    THEN self
    ELSE LET doc_index == IndexOf(self.paper_ids, paper_id)
             lens == DelAt(self.doc_lengths, doc_index)
             deleted == [self EXCEPT
                            !.documents = DelAt(self.documents, doc_index),
                            !.paper_ids = DelAt(self.paper_ids, doc_index),
                            !.doc_lengths = lens]
             rebuilt == build_term_indexes(deleted)
         IN  IF lens # <<>>
             THEN [rebuilt EXCEPT !.avg_doc_length = Mean(lens)]
             ELSE rebuilt

\* BM25Service.update_paper
update_paper(self, paper) == add_paper(remove_paper(self, paper.id), paper)

\* BM25Service.get_stats
get_stats(self) ==
    [total_documents |-> self.total_docs,
     average_document_length |-> self.avg_doc_length,
     unique_terms |-> Cardinality(DOMAIN self.term_freq),
     parameters |-> [k1 |-> <<K1Num, K1Den>>, b |-> <<BNum, BDen>>]]

\* ------------------------------------------------------------------ scoring

\* round(10000 * ln(k)) for k = 1..9
LnTable == <<0, 6931, 10986, 13863, 16094, 17918, 19459, 20794, 21972>>

\* math.log(p / q) in units of 1/10000; equal quotients give equal values.
Log(p, q) == LnTable[p \div Gcd(p, q)] - LnTable[q \div Gcd(p, q)]

\* BM25Service._calculate_idf
calculate_idf(self, term) ==
    IF term \notin DOMAIN self.doc_freq
    THEN 0
    ELSE Log(self.total_docs + 1, self.doc_freq[term] + 1)

\* The query term is in the index and occurs in the document.
Contributes(self, doc_id, term) ==
    /\ term \in DOMAIN self.term_freq
    /\ doc_id \in DOMAIN self.term_freq[term]

\* tf + k1 * (1 - b + b * (doc_length / avg_doc_length)), times the common
\* denominator K1Den * BDen * avg.num
Denominator(self, doc_id, term) ==
    LET tf == self.term_freq[term][doc_id]
        avg == self.avg_doc_length
    IN  tf * K1Den * BDen * avg.num
        + K1Num * ((BDen - BNum) * avg.num
                   + BNum * self.doc_lengths[doc_id] * avg.den)

\* tf * (k1 + 1), times the same common denominator
Numerator(self, doc_id, term) ==
    self.term_freq[term][doc_id] * (K1Num + K1Den) * BDen * self.avg_doc_length.num

\* term_score = idf * (numerator / denominator) of a contributing term
TermScore(self, doc_id, term) ==
    (calculate_idf(self, term) * Numerator(self, doc_id, term))
        \div Denominator(self, doc_id, term)

\* doc_length / self.avg_doc_length raises ZeroDivisionError
ScoreRaises(self, doc_id, query_terms) ==
    \E i \in DOMAIN query_terms :
        /\ Contributes(self, doc_id, query_terms[i])
        /\ self.avg_doc_length.num = 0

\* BM25Service._calculate_bm25_score, where it does not raise
calculate_bm25_score(self, doc_id, query_terms) ==
    Sum([i \in DOMAIN query_terms |->
            IF Contributes(self, doc_id, query_terms[i])
            THEN TermScore(self, doc_id, query_terms[i])
            ELSE 0])

\* ------------------------------------------------------------------- search

\* The (doc_id, score) pairs with score > 0 of the positions 1..k, in
\* position order.
RECURSIVE PositiveScores(_, _, _)
PositiveScores(self, query_terms, k) ==
    IF k = 0
    THEN <<>>
    ELSE LET rest == PositiveScores(self, query_terms, k - 1)
             score == calculate_bm25_score(self, k, query_terms)
         IN  IF score > 0
             THEN Append(rest, [doc_id |-> k, score |-> score])
             ELSE rest

\* x put behind the entries whose score is at least its own
InsertDesc(sorted, x) ==
    LET k == Cardinality({i \in DOMAIN sorted : sorted[i].score >= x.score})
    IN  SubSeq(sorted, 1, k) \o <<x>> \o SubSeq(sorted, k + 1, Len(sorted))

\* scores.sort(key=lambda x: x[1], reverse=True): a stable sort
RECURSIVE SortDesc(_)
SortDesc(scores) ==
    IF scores = <<>>
    THEN <<>>
    ELSE InsertDesc(SortDesc(SubSeq(scores, 1, Len(scores) - 1)),
                    scores[Len(scores)])

\* scores[:limit]
Slice(scores, limit) ==
    IF limit >= 0
    THEN SubSeq(scores, 1, IF limit < Len(scores) THEN limit ELSE Len(scores))
    ELSE SubSeq(scores, 1, IF Len(scores) + limit > 0
                           THEN Len(scores) + limit ELSE 0)

\* top_results of search
TopResults(self, query_terms, limit) ==
    Slice(SortDesc(PositiveScores(self, query_terms, Len(self.documents))), limit)

\* The result loop: a result for every top entry whose paper the table holds;
\* rank is the entry's place in top_results.
RECURSIVE ResultsUpTo(_, _, _, _)
ResultsUpTo(self, rows, top, k) ==
    IF k = 0
    THEN <<>>
    ELSE LET rest == ResultsUpTo(self, rows, top, k - 1)
             id == self.paper_ids[top[k].doc_id]
         IN  IF ~rows[id].absent
             THEN Append(rest, [paper_id |-> id, score |-> top[k].score,
                                rank |-> k])
             ELSE rest

\* BM25Service.search
search(self, rows, query, limit) ==
    LET query_terms == tokenize(query)
    IN  IF query_terms = <<>>
        THEN [raised |-> FALSE, results |-> <<>>]
        ELSE IF \E d \in DOMAIN self.documents : ScoreRaises(self, d, query_terms)
        THEN [raised |-> TRUE, results |-> <<>>]
        ELSE [raised |-> FALSE,
              results |-> LET top == TopResults(self, query_terms, limit)
                          IN  ResultsUpTo(self, rows, top, Len(top))]

\* -------------------------------------------------------------------- state

VARIABLES
    documents,        \* BM25Service.documents: token sequence per position
    paper_ids,        \* BM25Service.paper_ids: identifier per position
    doc_lengths,      \* BM25Service.doc_lengths: token count per position
    avg_doc_length,   \* BM25Service.avg_doc_length, a fraction
    term_freq,        \* BM25Service.term_freq: term -> position -> count
    doc_freq,         \* BM25Service.doc_freq: term -> number of documents
    total_docs,       \* BM25Service.total_docs
    papers,           \* the papers table: identifier -> row or NoPaper
    last,             \* the operation that ran last, with its arguments
    results,          \* what the last search returned
    bm25_service,     \* main.py's global bm25_service: None or the index object
    cache,            \* the search:* keys of Redis: key -> stored response
    collection,       \* the identifiers of the Chroma collection
    running           \* the coroutine on the event loop and its position

vars == <<documents, paper_ids, doc_lengths, avg_doc_length, term_freq,
          doc_freq, total_docs, papers, last, results, bm25_service, cache,
          collection, running>>

\* The index object as one record.
Self ==
    [documents |-> documents, paper_ids |-> paper_ids,
     doc_lengths |-> doc_lengths, avg_doc_length |-> avg_doc_length,
     term_freq |-> term_freq, doc_freq |-> doc_freq, total_docs |-> total_docs]

\* The fields of the index object after an operation.
Install(r) ==
    /\ documents' = r.documents
    /\ paper_ids' = r.paper_ids
    /\ doc_lengths' = r.doc_lengths
    /\ avg_doc_length' = r.avg_doc_length
    /\ term_freq' = r.term_freq
    /\ doc_freq' = r.doc_freq
    /\ total_docs' = r.total_docs

IndexVars ==
    <<documents, paper_ids, doc_lengths, avg_doc_length, term_freq, doc_freq,
      total_docs>>

\* What the operations on the index object leave alone.
ServerVars == <<bm25_service, cache, collection, running>>

\* No coroutine is running. Of a running one, step is the line of
\* bm25_service.py it executes next, doc_index and corpus are its locals.
Idle == [op |-> "idle", id |-> "", step |-> 0, doc_index |-> 0, corpus |-> <<>>]

\* The record of an operation: found tells whether the removal of id located
\* it, same whether the document put in has the tokens of one indexed under
\* the same id before.
Op(op, id, found, same) ==
    [op |-> op, id |-> id, found |-> found, same |-> same,
     query |-> <<>>, limit |-> 0, query_terms |-> <<>>, raised |-> FALSE]

\* ------------------------------------------------------------------ actions

Init ==
    /\ papers = [id \in Ids |-> NoPaper]
    /\ documents = build_index(<<>>).documents
    /\ paper_ids = build_index(<<>>).paper_ids
    /\ doc_lengths = build_index(<<>>).doc_lengths
    /\ avg_doc_length = build_index(<<>>).avg_doc_length
    /\ term_freq = build_index(<<>>).term_freq
    /\ doc_freq = build_index(<<>>).doc_freq
    /\ total_docs = build_index(<<>>).total_docs
    /\ last = Op("init", "", FALSE, FALSE)
    /\ results = <<>>
    /\ bm25_service = "BM25Service"
    /\ cache = EmptyMap
    /\ collection = {}
    /\ running = Idle

\* PaperService._insert_papers for one paper: insert, or on a conflict update
\* title, abstract and n_citation and keep is_stub.
InsertPaper(id, t) ==
    /\ papers' = [papers EXCEPT ![id] =
                    IF papers[id].absent
                    THEN Row(t.title, t.abstract, t.is_stub, t.n_citation)
                    ELSE Row(t.title, t.abstract, papers[id].is_stub,
                             t.n_citation)]
    /\ last' = Op("insert", id, FALSE, FALSE)
    /\ results' = <<>>
    /\ UNCHANGED <<IndexVars, ServerVars>>

\* The orders in which the query of _build_index may return the rows that
\* are no stubs (it states no ORDER BY).
LivePapers ==
    LET live == {id \in Ids : ~papers[id].absent /\ ~papers[id].is_stub}
    IN  {[i \in DOMAIN order |-> PaperOf(order[i], papers[order[i]])] :
            order \in {o \in [1..Cardinality(live) -> live] :
                          \A i, j \in DOMAIN o : i # j => o[i] # o[j]}}

\* Build: BM25Service._build_index
Build ==
    \E corpus \in LivePapers :
        /\ Install(build_index(corpus))
        /\ last' = Op("build", "", FALSE, FALSE)
        /\ results' = <<>>
        /\ UNCHANGED <<papers, ServerVars>>

\* Add: BM25Service.add_paper with a paper of the table
Add(id) ==
    /\ ~papers[id].absent
    /\ Len(documents) < MaxDocs
    /\ Install(add_paper(Self, PaperOf(id, papers[id])))
    /\ last' = Op("add", id, FALSE, FALSE)
    /\ results' = <<>>
    /\ UNCHANGED <<papers, ServerVars>>

\* Remove: BM25Service.remove_paper
Remove(id) ==
    /\ Install(remove_paper(Self, id))
    /\ last' = Op("remove", id, id \in Range(paper_ids), FALSE)
    /\ results' = <<>>
    /\ UNCHANGED <<papers, ServerVars>>

\* Update: BM25Service.update_paper with a paper of the table
Update(id) ==
    /\ ~papers[id].absent
    /\ Len(documents) < MaxDocs \/ id \in Range(paper_ids)
    /\ Install(update_paper(Self, PaperOf(id, papers[id])))
    /\ last' = Op("update", id, id \in Range(paper_ids),
                  \E p \in DOMAIN paper_ids :
                      /\ paper_ids[p] = id
                      /\ documents[p] = tokenize(PaperText(papers[id])))
    /\ results' = <<>>
    /\ UNCHANGED <<papers, ServerVars>>

\* Search: BM25Service.search
Search(query, limit) ==
    LET r == search(Self, papers, query, limit)
    IN  /\ last' = [Op("search", "", FALSE, FALSE) EXCEPT
                        !.query = query, !.limit = limit,
                        !.query_terms = tokenize(query), !.raised = r.raised]
        /\ results' = r.results
        /\ UNCHANGED <<IndexVars, papers, ServerVars>>

Next ==
    \/ \E s \in Submissions : InsertPaper(s[1], s[2])
    \/ Build
    \/ \E id \in Ids : Add(id)
    \/ \E id \in Ids : Remove(id)
    \/ \E id \in Ids : Update(id)

\* The operations that change the index or the table.
Spec == Init /\ [][Next]_vars

NextSearch ==
    \/ Next
    \/ \E request \in Requests : Search(request[1], request[2])

\* The same operations with the searches between them.
SpecSearch == Init /\ [][NextSearch]_vars

\* ------------------------------------------------------------------- claims

\* The postings a from-scratch rebuild over the current documents produces.
Rebuilt == BuildTermsUpTo(documents, Len(documents))

\* C1: after any sequence of Build, Add, Remove and Update, term_freq and
\* doc_freq are exactly those of a from-scratch rebuild over the documents
\* now indexed, in their current positions (no stale postings or counts).
C1_PostingsEqualRebuild ==
    /\ term_freq = Rebuilt.term_freq
    /\ doc_freq = Rebuilt.doc_freq

\* C1 witness: an indexed document was replaced by one with other tokens and
\* two documents are indexed.
C1_Witness ==
    /\ last.op = "update" /\ last.found /\ ~last.same
    /\ Len(documents) >= 2
    /\ DOMAIN term_freq # {}

\* C2: for every term of doc_freq, doc_freq[term] is the number of positions
\* term_freq records for it, and each of them is a position of a document
\* now indexed.
C2_DocFreqCountsPostings ==
    \A term \in DOMAIN doc_freq :
        /\ term \in DOMAIN term_freq
        /\ doc_freq[term] = Cardinality(DOMAIN term_freq[term])
        /\ DOMAIN term_freq[term] \subseteq DOMAIN documents

\* C2 witness: after a removal that found its document, a term of a document
\* that holds it twice is still in two documents.
C2_Witness ==
    /\ last.op = "remove" /\ last.found
    /\ \E term \in DOMAIN doc_freq :
          /\ doc_freq[term] = 2
          /\ \E p \in DOMAIN term_freq[term] : term_freq[term][p] = 2

\* C3: the three lists have one length, doc_lengths[p] is the token count of
\* documents[p], and Stats reports len(documents) documents.
C3_ParallelLists ==
    /\ Len(documents) = Len(paper_ids)
    /\ Len(documents) = Len(doc_lengths)
    /\ \A p \in DOMAIN documents : doc_lengths[p] = Len(documents[p])
    /\ get_stats(Self).total_documents = Len(documents)

\* C3 witness: a removal found its document and left two behind, one of them
\* with tokens.
C3_Witness ==
    /\ last.op = "remove" /\ last.found
    /\ Len(documents) = 2
    /\ \E p \in DOMAIN documents : doc_lengths[p] > 0

\* C4, as claimed: avg_doc_length is the mean of doc_lengths over the
\* documents now indexed, and 0 when the index holds none.
C4_AverageIsMean ==
    avg_doc_length = IF doc_lengths = <<>> THEN Zero ELSE Mean(doc_lengths)

\* C5: Remove of an identifier that is not indexed leaves every field of the
\* index, and so Stats, as it was.
C5_RemoveUnknownIsNoOp ==
    [][(last'.op = "remove" /\ ~last'.found)
        => /\ UNCHANGED IndexVars
           /\ get_stats(Self)' = get_stats(Self)]_vars

\* C5 witness: a removal did not find its identifier in an index that holds
\* documents with tokens.
C5_Witness ==
    /\ last.op = "remove" /\ ~last.found
    /\ documents # <<>>
    /\ DOMAIN term_freq # {}

\* The score of every (identifier, query) pair.
ScoreTable(self) ==
    {<<self.paper_ids[p], q, calculate_bm25_score(self, p, tokenize(q))>> :
        p \in DOMAIN self.documents, q \in Queries}

\* C6, as claimed: Remove(d.id) followed by Add(d with the same content),
\* for an indexed document d, yields the Stats and the scores the index had
\* before.
C6_RemoveThenAddRestores ==
    [][(last'.op = "update" /\ last'.found /\ last'.same)
        => /\ get_stats(Self)' = get_stats(Self)
           /\ ScoreTable(Self)' = ScoreTable(Self)]_vars

\* C7, as claimed: a document with at least one token added to an empty
\* index scores more than 0 against the tokens of its own text.
C7_OwnTextScoresPositive ==
    (last.op = "add" /\ Len(documents) = 1 /\ documents[1] # <<>>)
        => calculate_bm25_score(Self, 1, documents[1]) > 0

\* The positions of the documents that hold a token of the query.
Matching(query_terms) ==
    {p \in DOMAIN documents : Range(documents[p]) \cap Range(query_terms) # {}}

Max(a, b) == IF a >= b THEN a ELSE b

\* C8, as claimed: with a limit of at least the number of matching
\* documents, Search returns exactly the documents that hold a token of the
\* query, each with a score above 0.
C8_SearchReturnsMatching ==
    (/\ last.op = "search" /\ ~last.raised
     /\ last.limit >= Cardinality(Matching(last.query_terms)))
        => /\ {results[i].paper_id : i \in DOMAIN results}
                = {paper_ids[p] : p \in Matching(last.query_terms)}
           /\ \A i \in DOMAIN results : results[i].score > 0

\* top_results of the last search
LastTop == TopResults(Self, last.query_terms, last.limit)

\* C9, as claimed: Search returns at most limit results (none for a limit
\* below 0), in non-increasing score order, with ranks 1, 2, ..., n, and
\* documents of equal score in insertion order.
C9_SearchRanking ==
    (last.op = "search" /\ ~last.raised)
        => /\ Len(results) <= Max(last.limit, 0)
           /\ \A i \in DOMAIN results : results[i].rank = i
           /\ \A i, j \in DOMAIN results :
                 i < j => results[i].score >= results[j].score
           /\ \A i, j \in DOMAIN LastTop :
                 (i < j /\ LastTop[i].score = LastTop[j].score)
                     => LastTop[i].doc_id < LastTop[j].doc_id

\* C10 as amended: tokenize("The Attention Is All You Need") returns
\* ["attention", "all", "you", "need"]: 'the' and 'is' are stop words, 'all'
\* and 'you' are neither stop words nor of length <= 2.
C10_TokenizeAttention ==
    (last.op = "search" /\ last.query = QueryAttention)
        => last.query_terms = <<"attention", "all", "you", "need">>

\* C10 witness: a search for "The Attention Is All You Need" has run.
C10_Witness == last.op = "search" /\ last.query = QueryAttention

\* C10, as claimed: it returns ["attention", "need"].
C10_AsClaimed ==
    (last.op = "search" /\ last.query = QueryAttention)
        => last.query_terms = <<"attention", "need">>

\* ------------------------------------------------------------------- fusion

\* The scores of the fusion are exact fractions [num, den] with den > 0
\* (the code computes them in floating point).

Whole(n) == [num |-> n, den |-> 1]

FracAdd(x, y) == Frac(x.num * y.den + y.num * x.den, x.den * y.den)

FracMul(x, y) == Frac(x.num * y.num, x.den * y.den)

\* x < y, by the continued fractions of x and y (no cross product).
RECURSIVE FracLess(_, _)
FracLess(x, y) ==
    LET qx == x.num \div x.den
        qy == y.num \div y.den
        rx == x.num % x.den
        ry == y.num % y.den
    IN  IF qx # qy THEN qx < qy
        ELSE IF ry = 0 THEN FALSE
        ELSE IF rx = 0 THEN TRUE
        ELSE FracLess([num |-> y.den, den |-> ry], [num |-> x.den, den |-> rx])

\* The smoothing constant of the reciprocal rank: 1 / (60 + rank)
RrfConstant == 60

Rrf(rank) == Frac(1, RrfConstant + rank)

\* The orders in which a set can be iterated.
Orderings(S) ==
    {o \in [1..Cardinality(S) -> S] : \A i, j \in DOMAIN o : i # j => o[i] # o[j]}

\* {result["paper_id"]: result for result in bm25_results}: the last result
\* of an identifier is the one the lookup keeps.
bm25_lookup(bm25_results) ==
    [id \in {bm25_results[i].paper_id : i \in DOMAIN bm25_results} |->
        bm25_results[CHOOSE i \in DOMAIN bm25_results :
            /\ bm25_results[i].paper_id = id
            /\ \A j \in DOMAIN bm25_results :
                  bm25_results[j].paper_id = id => j <= i]]

\* bert_lookup: an entry for every identifier that has a distance.
bert_lookup(bert_ids, bert_distances) ==
    LET with_distance == {i \in DOMAIN bert_ids : i <= Len(bert_distances)}
    IN  [id \in {bert_ids[i] : i \in with_distance} |->
            LET idx == CHOOSE i \in with_distance :
                           /\ bert_ids[i] = id
                           /\ \A j \in with_distance : bert_ids[j] = id => j <= i
            IN  [paper_id |-> id, bert_score |-> bert_distances[idx],
                 bert_rank |-> idx]]

\* all_papers of combine_bm25_and_bert
all_papers(bm25_results, bert_ids, bert_distances) ==
    DOMAIN bm25_lookup(bm25_results)
        \cup DOMAIN bert_lookup(bert_ids, bert_distances)

\* The entry of combined_results with the length of a list, not the length
\* + 1, as the rank of a paper the list does not hold.
CombinedResult_absent_rank_is_length(bm25_results, bert_ids, bert_distances, bert_weight, paper_id) ==
    LET lexical == bm25_lookup(bm25_results)
        semantic == bert_lookup(bert_ids, bert_distances)
        bm25_rank == IF paper_id \in DOMAIN lexical
                     THEN lexical[paper_id].rank
                     ELSE Len(bm25_results)
        bert_rank == IF paper_id \in DOMAIN semantic
                     THEN semantic[paper_id].bert_rank
                     ELSE Len(bert_ids)
    IN  [paper_id |-> paper_id,
         hybrid_score |-> FracAdd(Rrf(bm25_rank), FracMul(Rrf(bert_rank), bert_weight)),
         bm25_score |-> IF paper_id \in DOMAIN lexical
                        THEN lexical[paper_id].score ELSE None,
         bert_score |-> IF paper_id \in DOMAIN semantic
                        THEN semantic[paper_id].bert_score ELSE None,
         bm25_rank |-> bm25_rank,
         bert_rank |-> bert_rank]

\* The entry of combined_results with bert_weight on the lexical channel.
CombinedResult_weight_on_lexical(bm25_results, bert_ids, bert_distances, bert_weight, paper_id) ==
    LET lexical == bm25_lookup(bm25_results)
        semantic == bert_lookup(bert_ids, bert_distances)
        bm25_rank == IF paper_id \in DOMAIN lexical
                     THEN lexical[paper_id].rank
                     ELSE Len(bm25_results) + 1
        bert_rank == IF paper_id \in DOMAIN semantic
                     THEN semantic[paper_id].bert_rank
                     ELSE Len(bert_ids) + 1
    IN  [paper_id |-> paper_id,
         hybrid_score |-> FracAdd(FracMul(Rrf(bm25_rank), bert_weight), Rrf(bert_rank)),
         bm25_score |-> IF paper_id \in DOMAIN lexical
                        THEN lexical[paper_id].score ELSE None,
         bert_score |-> IF paper_id \in DOMAIN semantic
                        THEN semantic[paper_id].bert_score ELSE None,
         bm25_rank |-> bm25_rank,
         bert_rank |-> bert_rank]

\* The entry of combined_results for paper_id.
CombinedResult(bm25_results, bert_ids, bert_distances, bert_weight, paper_id) ==
    LET lexical == bm25_lookup(bm25_results)
        semantic == bert_lookup(bert_ids, bert_distances)
        bm25_rank == IF paper_id \in DOMAIN lexical
                     THEN lexical[paper_id].rank
                     ELSE Len(bm25_results) + 1
        bert_rank == IF paper_id \in DOMAIN semantic
                     THEN semantic[paper_id].bert_rank
                     ELSE Len(bert_ids) + 1
    IN  [paper_id |-> paper_id,
         hybrid_score |-> FracAdd(Rrf(bm25_rank), FracMul(Rrf(bert_rank), bert_weight)),
         bm25_score |-> IF paper_id \in DOMAIN lexical
                        THEN lexical[paper_id].score ELSE None,
         bert_score |-> IF paper_id \in DOMAIN semantic
                        THEN semantic[paper_id].bert_score ELSE None,
         bm25_rank |-> bm25_rank,
         bert_rank |-> bert_rank]

\* x put behind the entries whose key is at least its own
InsertByKey(sorted, x, key) ==
    LET k == Cardinality({i \in DOMAIN sorted : ~FracLess(sorted[i][key], x[key])})
    IN  SubSeq(sorted, 1, k) \o <<x>> \o SubSeq(sorted, k + 1, Len(sorted))

\* list.sort(key=lambda x: x[key], reverse=True): a stable sort
RECURSIVE SortByKey(_, _)
SortByKey(list, key) ==
    IF list = <<>>
    THEN <<>>
    ELSE InsertByKey(SortByKey(SubSeq(list, 1, Len(list) - 1), key),
                     list[Len(list)], key)

\* combine_bm25_and_bert; order is the order in which the set all_papers is
\* iterated.
combine_bm25_and_bert(bm25_results, bert_ids, bert_distances, limit, bert_weight, citation_weight, order) ==
    LET combined_results ==
            [i \in DOMAIN order |->
                CombinedResult(bm25_results, bert_ids, bert_distances,
                               bert_weight, order[i])]
    IN  Slice(SortByKey(combined_results, "hybrid_score"), limit)

\* ------------------------------------------------------------- orchestrator

Min(a, b) == IF a <= b THEN a ELSE b

Half == [num |-> 1, den |-> 2]

\* A paper with other citations than TemplateDeep.
TemplateCited ==
    [title |-> TitleDeep, abstract |-> AbstractNetworks, is_stub |-> FALSE,
     n_citation |-> 2]

\* The papers the clients of the server submit.
ServerSubmissions == { <<"p1", TemplateAttention>>, <<"p2", TemplateDeep>> }

\* The same with a paper whose citations change.
CitedSubmissions == ServerSubmissions \cup { <<"p2", TemplateCited>> }

\* SearchRequest
Payload(query, size, bert_weight, citation_weight) ==
    [query |-> query, page |-> 1, size |-> size, bert_weight |-> bert_weight,
     citation_weight |-> citation_weight]

\* The search requests of the model. The size is any integer and the weights
\* are any numbers (SearchRequest validates none of them).
Payloads ==
    { Payload(QueryAttention, 1, Whole(2), Half),
      Payload(QueryAttention, 2, Whole(2), Half),
      Payload(QueryAttention, 2, Half, Whole(1)),
      Payload(QueryAttention, -1, Whole(2), Whole(0)),
      Payload(<<>>, 1, Whole(2), Half) }

\* str.strip() (the only white space of the texts is the blank)
RECURSIVE Strip(_)
Strip(text) ==
    IF text = <<>> THEN <<>>
    ELSE IF text[1] = " " THEN Strip(Tail(text))
    ELSE IF text[Len(text)] = " " THEN Strip(SubSeq(text, 1, Len(text) - 1))
    ELSE text

\* round(x, 2): the nearest hundredth, the even one of two nearest
Round2(x) ==
    LET q == (x.num * 100) \div x.den
        r == (x.num * 100) % x.den
    IN  IF 2 * r < x.den THEN Frac(q, 100)
        ELSE IF 2 * r > x.den THEN Frac(q + 1, 100)
        ELSE IF q % 2 = 0 THEN Frac(q, 100)
        ELSE Frac(q + 1, 100)

\* cache_key: the digest of cache_params, as the parameters themselves
cache_key(payload) ==
    [query |-> Strip(Lower(payload.query)), page |-> payload.page,
     size |-> payload.size, bert_weight |-> Round2(payload.bert_weight),
     citation_weight |-> Round2(payload.citation_weight)]

\* n_results = max(1, min(200, payload.size * 2))
n_results(payload) == Max(1, Min(200, payload.size * 2))

\* ChromaService.query where it does not raise: the n_results nearest
\* identifiers of the collection, nearest first, with their distances
\* (distance i stands for the i-th smallest).
query(nearest, n) ==
    LET ids == SubSeq(nearest, 1, Min(n, Len(nearest)))
    IN  [ids |-> ids, distances |-> [i \in DOMAIN ids |-> i]]

\* The entry of final_results with the normalized value 1 where all
\* citation counts are equal.
FinalResult_equal_counts_normalized_one(result, paper, min_citations, max_citations, payload) ==
    LET citation_count == paper.n_citation
        citation_normalized ==
            IF max_citations > min_citations
            THEN Frac(citation_count - min_citations,
                      max_citations - min_citations)
            ELSE Whole(1)
        citation_only == ~FracLess(payload.citation_weight, Whole(1))
        citation_boost ==
            IF citation_only
            THEN Whole(citation_count)
            ELSE FracMul(FracMul(citation_normalized, payload.citation_weight),
                         Frac(5, 100))
    IN  [paper_id |-> result.paper_id,
         n_citation |-> paper.n_citation,
         score |-> IF citation_only
                   THEN Whole(citation_count)
                   ELSE FracAdd(result.hybrid_score, citation_boost),
         bm25_score |-> result.bm25_score,
         bert_score |-> result.bert_score,
         citation_boost |-> citation_boost,
         citation_normalized |-> citation_normalized,
         search_type |-> IF citation_only THEN "citation-only-sorting"
                         ELSE "hybrid-bm25-bert-citations"]

\* The entry of final_results for an entry of combined_results.
FinalResult(result, paper, min_citations, max_citations, payload) ==
    LET citation_count == paper.n_citation
        citation_normalized ==
            IF max_citations > min_citations
            THEN Frac(citation_count - min_citations,
                      max_citations - min_citations)
            ELSE Zero
        citation_only == ~FracLess(payload.citation_weight, Whole(1))
        citation_boost ==
            IF citation_only
            THEN Whole(citation_count)
            ELSE FracMul(FracMul(citation_normalized, payload.citation_weight),
                         Frac(5, 100))
    IN  [paper_id |-> result.paper_id,
         n_citation |-> paper.n_citation,
         score |-> IF citation_only
                   THEN Whole(citation_count)
                   ELSE FracAdd(result.hybrid_score, citation_boost),
         bm25_score |-> result.bm25_score,
         bert_score |-> result.bert_score,
         citation_boost |-> citation_boost,
         citation_normalized |-> citation_normalized,
         search_type |-> IF citation_only THEN "citation-only-sorting"
                         ELSE "hybrid-bm25-bert-citations"]

\* The largest and the smallest of a set of numbers that is not empty.
MaxOf(S) == CHOOSE x \in S : \A y \in S : y <= x

MinOf(S) == CHOOSE x \in S : \A y \in S : x <= y

\* final_results that leaves out the papers nobody cites.
final_results_dropping_uncited(combined_results, rows, payload) ==
    LET with_row == SelectSeq(combined_results,
                              LAMBDA result :
                                  /\ ~rows[result.paper_id].absent
                                  /\ rows[result.paper_id].n_citation > 0)
        citation_counts == {rows[with_row[i].paper_id].n_citation :
                               i \in DOMAIN with_row}
        max_citations == IF citation_counts # {} THEN MaxOf(citation_counts) ELSE 1
        min_citations == IF citation_counts # {} THEN MinOf(citation_counts) ELSE 0
    IN  SortByKey([i \in DOMAIN with_row |->
                      FinalResult(with_row[i], rows[with_row[i].paper_id],
                                  min_citations, max_citations, payload)],
                  "score")

\* final_results of search_papers: the citation statistics over the rows of
\* the combined results, an entry for every result that has a row, sorted.
final_results(combined_results, rows, payload) ==
    LET with_row == SelectSeq(combined_results,
                              LAMBDA result : ~rows[result.paper_id].absent)
        citation_counts == {rows[with_row[i].paper_id].n_citation :
                               i \in DOMAIN with_row}
        max_citations == IF citation_counts # {} THEN MaxOf(citation_counts) ELSE 1
        min_citations == IF citation_counts # {} THEN MinOf(citation_counts) ELSE 0
    IN  SortByKey([i \in DOMAIN with_row |->
                      FinalResult(with_row[i], rows[with_row[i].paper_id],
                                  min_citations, max_citations, payload)],
                  "score")

\* The response of search_papers that carries results.
Result(payload, results_, key) ==
    [status |-> 200, query |-> payload.query, total_results |-> Len(results_),
     page |-> 1, size |-> payload.size, results |-> results_,
     search_type |-> IF results_ # <<>> THEN results_[1].search_type
                     ELSE "hybrid-bm25-bert-citations",
     cached |-> FALSE, cache_key |-> key]

\* HTTPException(status_code=500) of search_papers
SearchFailed(payload, key) ==
    [Result(payload, <<>>, key) EXCEPT !.status = 500, !.search_type = "error"]

\* search_papers from the cache miss on, where neither channel raises:
\* bm25_results are the lexical results, nearest the collection as the
\* semantic channel orders it, order the iteration of all_papers.
hybrid_search(bm25_results, nearest, rows, payload, order) ==
    LET chroma_results == query(nearest, n_results(payload))
        combined_results ==
            combine_bm25_and_bert(bm25_results, chroma_results.ids,
                                  chroma_results.distances, payload.size,
                                  payload.bert_weight, payload.citation_weight,
                                  order)
    IN  Result(payload, final_results(combined_results, rows, payload),
               cache_key(payload))

\* The identifiers hybrid_search fuses.
Candidates(bm25_results, nearest, payload) ==
    LET chroma_results == query(nearest, n_results(payload))
    IN  all_papers(bm25_results, chroma_results.ids, chroma_results.distances)

\* What a request meets outside the program: whether the cache lookup, the
\* cache store and the semantic channel raise.
Environments ==
    {env \in [lookup_raises : BOOLEAN, store_raises : BOOLEAN,
              chroma_raises : BOOLEAN] :
        ~(env.store_raises /\ env.chroma_raises)}

\* The record of a search request: whether the cache answered it, what the
\* two channels gave and whether one of them raised.
Request(payload, env, hit, bm25_results, nearest, raised) ==
    [op |-> "search_papers", payload |-> payload, env |-> env, hit |-> hit,
     bm25_results |-> bm25_results, nearest |-> nearest, raised |-> raised]

\* The cache lookup of search_papers: a hit is a stored response read
\* without an exception.
cache_hit(store, key, env) == ~env.lookup_raises /\ key \in DOMAIN store

\* What raised of what a request came to.
Raised(env, store_raised, chroma_raised) ==
    [lookup_raises |-> env.lookup_raises, store_raises |-> store_raised,
     chroma_raises |-> chroma_raised]

\* search_papers after a cache miss. lexical is what bm25.search gave.
search_miss(lexical, rows, store, payload, env, nearest, order) ==
    IF lexical.raised \/ env.chroma_raises
    THEN [response |-> SearchFailed(payload, cache_key(payload)),
          cache |-> store,
          request |-> Request(payload, Raised(env, FALSE, ~lexical.raised),
                              FALSE, lexical.results, <<>>, TRUE)]
    ELSE LET response == hybrid_search(lexical.results, nearest, rows, payload,
                                       order)
         IN  [response |-> response,
              cache |-> IF env.store_raises THEN store
                        ELSE Put(store, cache_key(payload), response),
              request |-> Request(payload, Raised(env, env.store_raises, FALSE),
                                  FALSE, lexical.results, nearest, FALSE)]

\* search_papers with a cache lookup outside the try block: a lookup that
\* raises fails the request.
search_papers_lookup_failure_fails(lexical, rows, store, payload, env, nearest, order) ==
    IF env.lookup_raises
    THEN [response |-> SearchFailed(payload, cache_key(payload)),
          cache |-> store,
          request |-> Request(payload, Raised(env, FALSE, FALSE), FALSE,
                              lexical.results, nearest, TRUE)]
    ELSE IF cache_hit(store, cache_key(payload), env)
    THEN [response |-> [store[cache_key(payload)] EXCEPT !.cached = TRUE],
          cache |-> store,
          request |-> Request(payload, Raised(env, FALSE, FALSE), TRUE,
                              <<>>, <<>>, FALSE)]
    ELSE search_miss(lexical, rows, store, payload, env, nearest, order)

\* search_papers: the response, the cache after it and the record of the
\* request. env tells what raises of what the request comes to.
search_papers(lexical, rows, store, payload, env, nearest, order) ==
    IF cache_hit(store, cache_key(payload), env)
    THEN [response |-> [store[cache_key(payload)] EXCEPT !.cached = TRUE],
          cache |-> store,
          request |-> Request(payload, Raised(env, FALSE, FALSE), TRUE,
                              <<>>, <<>>, FALSE)]
    ELSE search_miss(lexical, rows, store, payload, env, nearest, order)

\* ------------------------------------------------------- actions of the server

\* The server after start-up: no index object yet, nothing cached, nothing
\* in the collection, an empty papers table.
InitServer ==
    /\ papers = [id \in Ids |-> NoPaper]
    /\ documents = <<>>
    /\ paper_ids = <<>>
    /\ doc_lengths = <<>>
    /\ avg_doc_length = Zero
    /\ term_freq = EmptyMap
    /\ doc_freq = EmptyMap
    /\ total_docs = 0
    /\ last = Op("init", "", FALSE, FALSE)
    /\ results = <<>>
    /\ bm25_service = "None"
    /\ cache = EmptyMap
    /\ collection = {}
    /\ running = Idle

\* create_papers for one paper: the upsert, the index object (built over the
\* table at its first use), add_paper for a paper that is no stub, and the
\* deletion of the cached searches, which may raise.
CreatePapers(id, t, invalidation_raises) ==
    /\ papers' = [papers EXCEPT ![id] =
                    IF papers[id].absent
                    THEN Row(t.title, t.abstract, t.is_stub, t.n_citation)
                    ELSE Row(t.title, t.abstract, papers[id].is_stub,
                             t.n_citation)]
    /\ \E bm25 \in IF bm25_service = "None"
                   THEN {build_index(corpus) : corpus \in LivePapers'}
                   ELSE {Self} :
          LET paper == PaperOf(id, papers'[id])
              after == IF ~paper.is_stub THEN add_paper(bm25, paper) ELSE bm25
          IN  /\ Len(after.documents) <= MaxDocs
              /\ Install(after)
    /\ bm25_service' = "BM25Service"
    /\ cache' = IF invalidation_raises THEN cache ELSE EmptyMap
    /\ last' = Op("create_papers", id, FALSE, FALSE)
    /\ results' = <<>>
    /\ UNCHANGED <<collection, running>>

\* add_papers_to_chroma: the papers that are no stubs are in the collection.
AddPapersToChroma ==
    /\ collection' = collection \cup
                        {id \in Ids : ~papers[id].absent /\ ~papers[id].is_stub}
    /\ last' = Op("add_papers_to_chroma", "", FALSE, FALSE)
    /\ results' = <<>>
    /\ UNCHANGED <<IndexVars, papers, bm25_service, cache, running>>

\* What bm25.search gives where the request never comes to it.
NotSearched == [raised |-> FALSE, results |-> <<>>]

\* The end of a search request: r is what search_papers gave, bm25 the
\* index object it used.
Respond(r, bm25) ==
    /\ results' = r.response
    /\ cache' = r.cache
    /\ last' = r.request
    /\ IF r.request.hit
       THEN UNCHANGED <<IndexVars, bm25_service>>
       ELSE Install(bm25) /\ bm25_service' = "BM25Service"
    /\ UNCHANGED <<papers, collection, running>>

\* A search request: the index object is built over the table if this is
\* its first use and no cached response answers the request.
SearchPapers(payload, env) ==
    IF cache_hit(cache, cache_key(payload), env)
    THEN \E r \in {search_papers(NotSearched, papers, cache, payload, env,
                                 <<>>, <<>>)} :
            Respond(r, Self)
    ELSE \E bm25 \in IF bm25_service = "None"
                     THEN {build_index(corpus) : corpus \in LivePapers}
                     ELSE {Self} :
         \E lexical \in {search(bm25, papers, payload.query, payload.size * 2)} :
         \E nearest \in IF lexical.raised \/ env.chroma_raises THEN {<<>>}
                        ELSE Orderings(collection) :
         \E order \in Orderings(Candidates(lexical.results, nearest, payload)) :
         \E r \in {search_papers(lexical, papers, cache, payload, env, nearest,
                                 order)} :
            Respond(r, bm25)

\* The requests of the model to a server with Redis.
ServerPayloads ==
    { Payload(QueryAttention, 1, Whole(2), Half),
      Payload(<<>>, 1, Whole(2), Half) }

NextServer ==
    \/ \E s \in ServerSubmissions : \E invalidation_raises \in BOOLEAN :
          CreatePapers(s[1], s[2], invalidation_raises)
    \/ AddPapersToChroma
    \/ \E payload \in ServerPayloads : \E env \in Environments :
          SearchPapers(payload, env)

\* The requests to the server: papers, the ingest into the collection and
\* searches.
SpecServer == InitServer /\ [][NextServer]_vars

\* Redis is down: every call of redis_client raises.
RedisDown ==
    {env \in Environments :
        env.lookup_raises /\ (env.store_raises \/ env.chroma_raises)}

NextFusion ==
    \/ \E s \in CitedSubmissions : CreatePapers(s[1], s[2], TRUE)
    \/ AddPapersToChroma
    \/ \E payload \in Payloads : \E env \in RedisDown :
          SearchPapers(payload, env)

\* The same requests to a server whose Redis is down, so that every search
\* runs both channels and the fusion.
SpecFusion == InitServer /\ [][NextFusion]_vars

\* -------------------------------------------------------- claims of the server

\* The identifiers of a list of results, in its order.
IdsOf(list) == [i \in DOMAIN list |-> list[i].paper_id]

\* The last request was a search that no cached response answered.
Searched == last.op = "search_papers" /\ ~last.hit

\* C11: when the semantic channel raises during a search request, the
\* request does not fail: its response is no error and carries the results of
\* the lexical channel alone.
C11_SemanticFailureDegrades ==
    (Searched /\ last.env.chroma_raises)
        => /\ results.status = 200
           /\ Range(IdsOf(results.results)) = Range(IdsOf(last.bm25_results))

\* What bm25.search gives for the last request (a search leaves the index
\* and the table as they are).
LastLexical == search(Self, papers, last.payload.query, last.payload.size * 2)

\* C12: a search request whose cache lookup or cache store raised fails only
\* if a channel raised, and otherwise its response is the one search_papers
\* computes from the two channels with no cache.
C12_CacheFailureHarmless ==
    (last.op = "search_papers"
            /\ (last.env.lookup_raises \/ last.env.store_raises))
        => /\ ~last.hit
           /\ results.status = 500
                => LastLexical.raised \/ last.env.chroma_raises
           /\ results.status # 500
                => \E order \in Orderings(Candidates(LastLexical.results,
                                              last.nearest, last.payload)) :
                      results = hybrid_search(LastLexical.results, last.nearest,
                                              papers, last.payload, order)

\* C12 witness: a lookup that raised on a key the cache holds, and a store
\* that raised, each on a request that returned results.
C12_Witness ==
    /\ last.op = "search_papers"
    /\ last.env.lookup_raises /\ last.env.store_raises
    /\ cache_key(last.payload) \in DOMAIN cache
    /\ results.status = 200 /\ results.results # <<>>

\* C13: a search whose query has no tokens gets no lexical results, and a
\* search request with an empty query text is answered, without an error,
\* with no results.
C13_EmptyQueryEmptyResult ==
    (Searched /\ ~last.env.chroma_raises)
        => /\ tokenize(last.payload.query) = <<>> => last.bm25_results = <<>>
           /\ last.payload.query = <<>>
                => results.status = 200 /\ results.results = <<>>

\* The weights the claims compare.
BertWeights == {Whole(0), Half, Whole(1), Whole(2)}

CitationWeights == {Whole(0), Half, Whole(1)}

\* What the semantic channel gave for the last request.
LastChroma == query(last.nearest, n_results(last.payload))

\* The identifiers the last request fused.
LastUnion == Candidates(last.bm25_results, last.nearest, last.payload)

\* The fusion of the last request with another weight, limit and iteration
\* order.
LastFusion(bert_weight, limit, order) ==
    combine_bm25_and_bert(last.bm25_results, LastChroma.ids,
                          LastChroma.distances, limit, bert_weight,
                          last.payload.citation_weight, order)

\* The 1-based rank of an identifier in a list of identifiers, or the length
\* of the list + 1 if the list does not hold it.
RankIn(ids, id) ==
    IF id \in Range(ids)
    THEN MinOf({i \in DOMAIN ids : ids[i] = id})
    ELSE Len(ids) + 1

\* 1/(60 + lexical rank) + bert_weight * 1/(60 + semantic rank) for the
\* lists of the last request.
ClaimedHybridScore(bert_weight, id) ==
    FracAdd(Frac(1, 60 + RankIn(IdsOf(last.bm25_results), id)),
            FracMul(bert_weight, Frac(1, 60 + RankIn(LastChroma.ids, id))))

\* list is in descending order of key.
Descending(list, key) ==
    \A i, j \in DOMAIN list : i < j => ~FracLess(list[i][key], list[j][key])

\* C14: the fusion returns every identifier of the union of the two lists at
\* most once, with hybrid_score = 1/(60 + lexical rank) + bert_weight *
\* 1/(60 + semantic rank), in descending order of hybrid_score, cut to limit
\* entries, so that no left-out candidate scores strictly higher than a
\* returned one and the whole union is returned when limit >= its size.
C14_FusionUnionSortedTruncated ==
    (Searched /\ ~last.raised)
        => \A order \in Orderings(LastUnion) :
              LET limit == last.payload.size
                  bert_weight == last.payload.bert_weight
                  out == LastFusion(bert_weight, limit, order)
                  returned == Range(IdsOf(out))
              IN  /\ returned \subseteq LastUnion
                  /\ \A i, j \in DOMAIN out :
                        out[i].paper_id = out[j].paper_id => i = j
                  /\ \A i \in DOMAIN out :
                        out[i].hybrid_score
                            = ClaimedHybridScore(bert_weight, out[i].paper_id)
                  /\ Descending(out, "hybrid_score")
                  /\ Len(out) = Min(Max(limit, 0), Cardinality(LastUnion))
                  /\ \A id \in LastUnion \ returned : \A i \in DOMAIN out :
                        ~FracLess(out[i].hybrid_score,
                                  ClaimedHybridScore(bert_weight, id))
                  /\ limit >= Cardinality(LastUnion) => returned = LastUnion

\* The entry of combined_results of the last request for an identifier.
LastEntry(id) ==
    CombinedResult(last.bm25_results, LastChroma.ids, LastChroma.distances,
                   last.payload.bert_weight, id)

\* The identifiers of the two lists of the last request.
LexicalIds == Range(IdsOf(last.bm25_results))

SemanticIds == Range(LastChroma.ids)

\* C15: in the fusion a paper that a channel's list does not hold gets the
\* rank (length of that list + 1), which is strictly greater than the rank of
\* every paper the list holds, and the paper is fused like every other
\* candidate; for every lexical list of search and every semantic list.
C15_AbsentRankPastWorst ==
    (Searched /\ ~last.raised)
        => \A id \in LastUnion :
              /\ id \notin LexicalIds
                    => /\ LastEntry(id).bm25_rank = Len(last.bm25_results) + 1
                       /\ \A i \in DOMAIN last.bm25_results :
                             last.bm25_results[i].rank < LastEntry(id).bm25_rank
                       /\ \A other \in LexicalIds :
                             LastEntry(other).bm25_rank < LastEntry(id).bm25_rank
              /\ id \notin SemanticIds
                    => /\ LastEntry(id).bert_rank = Len(LastChroma.ids) + 1
                       /\ \A other \in SemanticIds :
                             LastEntry(other).bert_rank < LastEntry(id).bert_rank
              /\ \A order \in Orderings(LastUnion) :
                    id \in Range(IdsOf(LastFusion(last.payload.bert_weight,
                                                  Cardinality(LastUnion), order)))

\* C15 witness: a search fused a paper only the lexical list holds with a
\* paper only the semantic list holds.
C15_Witness ==
    /\ Searched /\ ~last.raised
    /\ LexicalIds \ SemanticIds # {}
    /\ SemanticIds \ LexicalIds # {}

\* S is placed before L in a fused list that holds S.
PlacedAbove(out, S, L) ==
    \E i \in DOMAIN out :
        /\ out[i].paper_id = S
        /\ \A j \in DOMAIN out : out[j].paper_id = L => i < j

\* The whole fused order of the last request under a weight and an
\* iteration order.
FusedOrder(bert_weight, order) ==
    LastFusion(bert_weight, Cardinality(LastUnion), order)

\* C16: for a paper S only the semantic list holds and a paper L only the
\* lexical list holds, if S is placed at or above L in the fused order at a
\* bert_weight w, it is so at every bert_weight greater than w.
C16_FusionMonotone ==
    (Searched /\ ~last.raised)
        => \A S \in SemanticIds \ LexicalIds : \A L \in LexicalIds \ SemanticIds :
           \A w, greater \in BertWeights :
              FracLess(w, greater)
                => \A order, other \in Orderings(LastUnion) :
                      PlacedAbove(FusedOrder(w, order), S, L)
                        => PlacedAbove(FusedOrder(greater, other), S, L)

\* C16 witness: a search with such S and L, where L is above S at one weight
\* and S above L at two greater ones.
C16_Witness ==
    /\ Searched /\ ~last.raised
    /\ \E S \in SemanticIds \ LexicalIds : \E L \in LexicalIds \ SemanticIds :
       \E order \in Orderings(LastUnion) :
          /\ PlacedAbove(FusedOrder(Half, order), L, S)
          /\ PlacedAbove(FusedOrder(Whole(1), order), S, L)
          /\ PlacedAbove(FusedOrder(Whole(2), order), S, L)

\* The response of the last request with other weights, other rows and an
\* iteration order.
LastResponse(bert_weight, citation_weight, rows, order) ==
    hybrid_search(last.bm25_results, last.nearest, rows,
                  [last.payload EXCEPT !.bert_weight = bert_weight,
                                       !.citation_weight = citation_weight],
                  order)

\* C17: with citation_weight >= 1 the results of a search request are in
\* descending order of n_citation, and their order is the same for every
\* bert_weight.
C17_CitationOnlyOrder ==
    (Searched /\ ~last.raised
            /\ ~FracLess(last.payload.citation_weight, Whole(1)))
        => /\ \A i, j \in DOMAIN results.results :
                 i < j => results.results[i].n_citation
                            >= results.results[j].n_citation
           /\ \A order \in Orderings(LastUnion) : \A bert_weight \in BertWeights :
                 IdsOf(LastResponse(bert_weight, last.payload.citation_weight,
                                    papers, order).results)
                    = IdsOf(LastResponse(last.payload.bert_weight,
                                         last.payload.citation_weight,
                                         papers, order).results)

\* C18: with citation_weight < 1 every result has the normalized value
\* (c - min) / (max - min) over the citation counts of the results, which
\* is in [0, 1] and 0 for all when the counts are equal, and the score
\* hybrid_score + normalized * citation_weight * 0.05; the results are in
\* descending order of that score.
C18_CitationBlend ==
    (Searched /\ ~last.raised /\ FracLess(last.payload.citation_weight, Whole(1)))
        => LET list == results.results
               counts == {list[i].n_citation : i \in DOMAIN list}
           IN  /\ \A i \in DOMAIN list :
                     LET normalized == list[i].citation_normalized
                     IN  /\ normalized
                               = IF MaxOf(counts) = MinOf(counts) THEN Zero
                                 ELSE Frac(list[i].n_citation - MinOf(counts),
                                           MaxOf(counts) - MinOf(counts))
                         /\ ~FracLess(normalized, Zero)
                         /\ ~FracLess(Whole(1), normalized)
                         /\ list[i].score
                               = FracAdd(LastEntry(list[i].paper_id).hybrid_score,
                                         FracMul(FracMul(normalized,
                                                     last.payload.citation_weight),
                                                 Frac(5, 100)))
               /\ Descending(list, "score")

\* C18 witness: a search with citation_weight 0.5 returned a cited paper
\* before one nobody cites whose fused score is higher.
C18_Witness ==
    /\ Searched /\ ~last.raised
    /\ last.payload.citation_weight = Half
    /\ Len(results.results) = 2
    /\ results.results[1].citation_normalized = Whole(1)
    /\ results.results[2].citation_normalized = Zero
    /\ FracLess(LastEntry(results.results[1].paper_id).hybrid_score,
                LastEntry(results.results[2].paper_id).hybrid_score)

\* The citation counts the claims compare.
CitationCounts == {0, 2}

\* C19: the set of identifiers a search request returns is the same for
\* every citation count of the papers and every citation_weight.
C19_CitationsNeverFilter ==
    (Searched /\ ~last.raised)
        => \A order \in Orderings(LastUnion) :
              LET returned == Range(IdsOf(LastResponse(last.payload.bert_weight,
                                             last.payload.citation_weight,
                                             papers, order).results))
              IN  /\ Range(IdsOf(results.results)) \subseteq LastUnion
                  /\ Cardinality(returned) = Len(results.results)
                  /\ \A counts \in [Ids -> CitationCounts] :
                     \A citation_weight \in CitationWeights :
                        Range(IdsOf(LastResponse(
                            last.payload.bert_weight, citation_weight,
                            [id \in Ids |->
                                [papers[id] EXCEPT !.n_citation = counts[id]]],
                            order).results)) = returned

\* C19 witness: a search returned fewer papers than it fused, a cited one
\* among those it fused.
C19_Witness ==
    /\ Searched /\ ~last.raised
    /\ results.results # <<>>
    /\ Len(results.results) < Cardinality(LastUnion)
    /\ \E id \in LastUnion : papers[id].n_citation > 0

\* ------------------------------------------------------------ the event loop

\* The handlers are coroutines of one event loop (uvicorn.run(app)), and the
\* methods of the index object never suspend: a coroutine starts only when
\* none is running.
LoopFree_always == TRUE

LoopFree == running = Idle

\* A coroutine at a line of bm25_service.py.
At(op, id, step, doc_index, corpus) ==
    [op |-> op, id |-> id, step |-> step, doc_index |-> doc_index,
     corpus |-> corpus]

\* The line a coroutine goes to from the end of remove_paper: update_paper
\* goes on with add_paper.
AfterRemove == IF running.op = "update" THEN [running EXCEPT !.step = 52] ELSE Idle

\* A request starts add_paper.
BeginAdd(id) ==
    /\ LoopFree
    /\ ~papers[id].absent
    /\ Len(documents) < MaxDocs
    /\ running' = At("add", id, 52, 0, <<>>)
    /\ last' = Op("add", id, FALSE, FALSE)
    /\ results' = <<>>
    /\ UNCHANGED <<IndexVars, papers, bm25_service, cache, collection>>

\* A request starts remove_paper (op "remove") or update_paper (op "update"):
\* the try block finds the position or takes the ValueError branch.
BeginRemove(op, id) ==
    /\ LoopFree
    /\ op = "update" => ~papers[id].absent
    /\ op = "update" => Len(documents) < MaxDocs \/ id \in Range(paper_ids)
    /\ running' = IF id \in Range(paper_ids)
                  THEN At(op, id, 66, IndexOf(paper_ids, id), <<>>)
                  ELSE IF op = "update" THEN At(op, id, 52, 0, <<>>)
                  ELSE Idle
    /\ last' = Op(op, id, id \in Range(paper_ids), FALSE)
    /\ results' = <<>>
    /\ UNCHANGED <<IndexVars, papers, bm25_service, cache, collection>>

\* A request starts _build_index: the query returns the rows.
BeginBuild ==
    /\ LoopFree
    /\ \E rows \in LivePapers : running' = At("build", "", 27, 0, rows)
    /\ last' = Op("build", "", FALSE, FALSE)
    /\ results' = <<>>
    /\ UNCHANGED <<IndexVars, papers, bm25_service, cache, collection>>

\* The tokens of the paper the running coroutine adds.
RunningTokens == tokenize(PaperText(PaperOf(running.id, papers[running.id])))

\* The running coroutine executes its next statement.
Step ==
    /\ running # Idle
    /\ \E after \in
          { CASE running.step = 27 ->
                   [self |-> [Self EXCEPT !.documents = <<>>, !.paper_ids = <<>>,
                                          !.doc_lengths = <<>>,
                                          !.avg_doc_length = Zero],
                    to |-> [running EXCEPT !.step =
                               IF running.corpus = <<>> THEN 40 ELSE 36]]
              [] running.step = 36 ->
                   [self |-> LET tokens == tokenize(PaperText(Head(running.corpus)))
                             IN  [Self EXCEPT
                                    !.documents = Append(documents, tokens),
                                    !.paper_ids = Append(paper_ids,
                                                      Head(running.corpus).id),
                                    !.doc_lengths = Append(doc_lengths, Len(tokens))],
                    to |-> [running EXCEPT
                               !.corpus = Tail(running.corpus),
                               !.step = IF Tail(running.corpus) = <<>>
                                        THEN 40 ELSE 36]]
              [] running.step = 40 ->
                   [self |-> IF doc_lengths # <<>>
                             THEN [Self EXCEPT !.avg_doc_length = Mean(doc_lengths)]
                             ELSE Self,
                    to |-> [running EXCEPT !.step = 43]]
              [] running.step = 43 ->
                   [self |-> build_term_indexes(Self), to |-> Idle]
              [] running.step = 52 ->
                   [self |-> [Self EXCEPT !.documents =
                                            Append(documents, RunningTokens)],
                    to |-> [running EXCEPT !.step = 53]]
              [] running.step = 53 ->
                   [self |-> [Self EXCEPT !.paper_ids =
                                            Append(paper_ids, running.id)],
                    to |-> [running EXCEPT !.step = 54]]
              [] running.step = 54 ->
                   [self |-> [Self EXCEPT !.doc_lengths =
                                            Append(doc_lengths, Len(RunningTokens))],
                    to |-> [running EXCEPT !.step = 56]]
              [] running.step = 56 ->
                   [self |-> [Self EXCEPT !.avg_doc_length = Mean(doc_lengths)],
                    to |-> [running EXCEPT !.step = 57]]
              [] running.step = 57 ->
                   [self |-> update_indexes_for_paper(Self, Len(documents),
                                                      RunningTokens),
                    to |-> Idle]
              [] running.step = 66 ->
                   [self |-> [Self EXCEPT !.documents =
                                            DelAt(documents, running.doc_index)],
                    to |-> [running EXCEPT !.step = 67]]
              [] running.step = 67 ->
                   [self |-> [Self EXCEPT !.paper_ids =
                                            DelAt(paper_ids, running.doc_index)],
                    to |-> [running EXCEPT !.step = 68]]
              [] running.step = 68 ->
                   [self |-> [Self EXCEPT !.doc_lengths =
                                            DelAt(doc_lengths, running.doc_index)],
                    to |-> [running EXCEPT !.step = 70]]
              [] running.step = 70 ->
                   [self |-> build_term_indexes(Self),
                    to |-> [running EXCEPT !.step = 72]]
              [] running.step = 72 ->
                   [self |-> IF doc_lengths # <<>>
                             THEN [Self EXCEPT !.avg_doc_length = Mean(doc_lengths)]
                             ELSE Self,
                    to |-> AfterRemove] } :
          /\ Install(after.self)
          /\ running' = after.to
    /\ UNCHANGED <<papers, last, results, bm25_service, cache, collection>>

\* A request writes a paper to the table.
LoopInsert(id, t) == LoopFree /\ InsertPaper(id, t)

\* A request searches the index.
LoopSearch(query_, limit) == LoopFree /\ Search(query_, limit)

\* The searches of the requests on the loop.
LoopRequests == { <<QueryAttention, MaxDocs>>, <<QueryNetworks, 1>> }

NextLoop ==
    \/ \E s \in ServerSubmissions : LoopInsert(s[1], s[2])
    \/ \E id \in Ids : BeginAdd(id)
    \/ \E id \in Ids : \E op \in {"remove", "update"} : BeginRemove(op, id)
    \/ BeginBuild
    \/ Step
    \/ \E request \in LoopRequests : LoopSearch(request[1], request[2])

\* The operations on the index object statement by statement, as the
\* coroutines of the event loop execute them.
SpecLoop == Init /\ [][NextLoop]_vars

\* C20: no search evaluates the index in the middle of Add, Remove, Update
\* or Build: at every search no mutation is under way, the three lists and
\* total_docs agree, and the postings are those of the documents.
C20_SearchSeesWholeIndex ==
    last.op = "search"
        => /\ running = Idle
           /\ Len(documents) = Len(paper_ids)
           /\ Len(documents) = Len(doc_lengths)
           /\ total_docs = Len(documents)
           /\ \A i \in DOMAIN documents : doc_lengths[i] = Len(documents[i])
           /\ term_freq = Rebuilt.term_freq
           /\ doc_freq = Rebuilt.doc_freq

\* C20 witness: a search that returned a paper of an index of two documents,
\* each of them put there statement by statement.
C20_Witness ==
    /\ last.op = "search"
    /\ results # <<>>
    /\ Len(documents) = 2
    /\ paper_ids[2] = "p1"
    /\ documents[2] = tokenize(PaperText(TemplateAttention))
    /\ documents[1] = tokenize(PaperText(TemplateDeep))

\* ---------------------------------------------------------- the store fails

\* _build_index with the lists reset before the query of the papers table:
\* a query that raises leaves the object without its documents.
build_index_raising_after_reset(self) ==
    [self EXCEPT !.documents = <<>>, !.paper_ids = <<>>, !.doc_lengths = <<>>,
                 !.avg_doc_length = Zero]

\* _build_index when the query of the papers table raises: the query is the
\* first statement that touches the object or the table, so the exception
\* leaves the method with the object as it was.
build_index_raising(self) == self

\* get_bm25_service: the global and the object after the call, and whether
\* the call raised. The global is assigned when the constructor has returned.
get_bm25_service(service, self, corpus, fetch_raises) ==
    IF service # "None"
    THEN [bm25_service |-> service, self |-> self, raised |-> FALSE]
    ELSE IF fetch_raises
    THEN [bm25_service |-> "None", self |-> self, raised |-> TRUE]
    ELSE [bm25_service |-> "BM25Service", self |-> build_index(corpus),
          raised |-> FALSE]

\* A request asks for the index object.
GetBm25Service(fetch_raises) ==
    \E corpus \in LivePapers :
    \E r \in {get_bm25_service(bm25_service, Self, corpus, fetch_raises)} :
        /\ Install(r.self)
        /\ bm25_service' = r.bm25_service
        /\ last' = [Op("get_bm25_service", "", FALSE, FALSE) EXCEPT
                        !.raised = r.raised]
        /\ results' = <<>>
        /\ UNCHANGED <<papers, cache, collection, running>>

\* _build_index again on the installed object.
Rebuild(fetch_raises) ==
    /\ bm25_service = "BM25Service"
    /\ \E corpus \in LivePapers :
          Install(IF fetch_raises THEN build_index_raising(Self)
                  ELSE build_index(corpus))
    /\ last' = [Op("build", "", FALSE, FALSE) EXCEPT !.raised = fetch_raises]
    /\ results' = <<>>
    /\ UNCHANGED <<papers, ServerVars>>

\* add_paper, remove_paper of the installed object.
StoreAdd(id) == bm25_service = "BM25Service" /\ Add(id)

StoreRemove(id) == bm25_service = "BM25Service" /\ Remove(id)

NextStore ==
    \/ \E s \in Submissions : InsertPaper(s[1], s[2])
    \/ \E fetch_raises \in BOOLEAN : GetBm25Service(fetch_raises)
    \/ \E fetch_raises \in BOOLEAN : Rebuild(fetch_raises)
    \/ \E id \in Ids : StoreAdd(id)
    \/ \E id \in Ids : StoreRemove(id)

\* The index object from its lazy construction on, over a papers table
\* whose query may raise.
SpecStore == InitServer /\ [][NextStore]_vars

\* C21: a Build whose fetch of the corpus raises installs nothing: the
\* failure reaches the caller, an installed index keeps every field and
\* stays the global, and where there was no index there is none afterwards.
C21_FailedBuildInstallsNothing ==
    [][(last'.op \in {"build", "get_bm25_service"} /\ last'.raised)
          => UNCHANGED <<IndexVars, bm25_service>>]_vars

\* C21 witness: a rebuild has failed on an installed index of two documents
\* while the table holds one paper that is no stub.
C21_Witness ==
    /\ last.op = "build"
    /\ last.raised
    /\ bm25_service = "BM25Service"
    /\ Len(documents) = 2
    /\ Cardinality({id \in Ids : ~papers[id].absent /\ ~papers[id].is_stub}) = 1

\* ------------------------------------------- claims of update and of the ids

\* C22, as claimed: Update(document) is Remove(identifier) followed by
\* Add(document). For an indexed identifier the index afterwards holds the
\* new tokens of the document, no position of the identifier other than the
\* new one, and as many documents as before; for an unknown identifier the
\* removal changes nothing and the document is put in, one document more.
C22_UpdateIsRemoveThenAdd ==
    [][last'.op = "update"
          => /\ Self' = add_paper(remove_paper(Self, last'.id),
                                  PaperOf(last'.id, papers[last'.id]))
             /\ paper_ids'[Len(paper_ids')] = last'.id
             /\ documents'[Len(documents')] =
                    tokenize(PaperText(papers[last'.id]))
             /\ IF last'.found
                THEN /\ Len(documents') = Len(documents)
                     /\ \A p \in DOMAIN paper_ids' :
                           paper_ids'[p] = last'.id => p = Len(paper_ids')
                ELSE /\ remove_paper(Self, last'.id) = Self
                     /\ Len(documents') = Len(documents) + 1]_vars

\* ------------------------------------------- the update and delete endpoints

\* The methods of class PaperService if update_paper and delete_paper were
\* defined inside it.
PaperServiceMethods_with_update_and_delete ==
    {"__init__", "bulk_create_papers", "_prepare_paper_data",
     "_prepare_author_data", "_create_stub_papers",
     "_find_missing_reference_ids", "_insert_papers", "_insert_authors",
     "_get_author_mapping", "_insert_paper_authors",
     "_insert_paper_references", "create_paper", "get_paper_by_id",
     "get_all_papers", "update_paper", "delete_paper"}

\* The methods of class PaperService. update_paper, delete_paper and
\* _get_or_create_author of paper_service.py start at column 0 after the
\* class: they are functions of the module, no attributes of its objects.
PaperServiceMethods ==
    {"__init__", "bulk_create_papers", "_prepare_paper_data",
     "_prepare_author_data", "_create_stub_papers",
     "_find_missing_reference_ids", "_insert_papers", "_insert_authors",
     "_get_author_mapping", "_insert_paper_authors",
     "_insert_paper_references", "create_paper", "get_paper_by_id",
     "get_all_papers"}

\* The bodies of the update requests of the model (paper_data: dict).
PaperData ==
    { [is_stub |-> TRUE],
      [title |-> TitleDeep, abstract |-> AbstractNetworks] }

\* update_paper of paper_service.py: setattr for the fields the paper has.
SetFields(row, paper_data) ==
    [field \in DOMAIN row |->
        IF field \in DOMAIN paper_data THEN paper_data[field] ELSE row[field]]

\* The response of an endpoint that carries a status only.
Http(status) == [status |-> status]

\* An endpoint ends with an HTTPException: nothing but the response.
Refuse(op, id, status) ==
    /\ results' = Http(status)
    /\ last' = [Op(op, id, FALSE, FALSE) EXCEPT !.raised = TRUE]
    /\ UNCHANGED <<IndexVars, papers, ServerVars>>

\* The index object of an endpoint after the table has changed: built over
\* the table at its first use.
IndexObjects ==
    IF bm25_service = "None"
    THEN {build_index(corpus) : corpus \in LivePapers'}
    ELSE {Self}

\* update_paper (endpoint): paper_service.update_paper raises AttributeError
\* where the class has no such method, which the handler turns into a 500;
\* else 404 for an unknown paper, else the row is changed, update_paper of
\* the index object is called with it and the cached searches are deleted.
UpdatePaper(id, paper_data, invalidation_raises) ==
    IF "update_paper" \notin PaperServiceMethods
    THEN Refuse("update_paper", id, 500)
    ELSE IF papers[id].absent
    THEN Refuse("update_paper", id, 404)
    ELSE /\ papers' = [papers EXCEPT ![id] = SetFields(@, paper_data)]
         /\ \E bm25 \in IndexObjects :
               LET after == update_paper(bm25, PaperOf(id, papers'[id]))
               IN  /\ Len(after.documents) <= MaxDocs
                   /\ Install(after)
         /\ bm25_service' = "BM25Service"
         /\ cache' = IF invalidation_raises THEN cache ELSE EmptyMap
         /\ last' = Op("update_paper", id, FALSE, FALSE)
         /\ results' = Http(200)
         /\ UNCHANGED <<collection, running>>

\* delete_paper (endpoint): paper_service.delete_paper raises AttributeError
\* where the class has no such method, which the handler turns into a 500;
\* else 404 for an unknown paper, else the row is deleted, remove_paper of
\* the index object is called and the cached searches are deleted.
DeletePaper(id, invalidation_raises) ==
    IF "delete_paper" \notin PaperServiceMethods
    THEN Refuse("delete_paper", id, 500)
    ELSE IF papers[id].absent
    THEN Refuse("delete_paper", id, 404)
    ELSE /\ papers' = [papers EXCEPT ![id] = NoPaper]
         /\ \E bm25 \in IndexObjects : Install(remove_paper(bm25, id))
         /\ bm25_service' = "BM25Service"
         /\ cache' = IF invalidation_raises THEN cache ELSE EmptyMap
         /\ last' = Op("delete_paper", id, FALSE, FALSE)
         /\ results' = Http(200)
         /\ UNCHANGED <<collection, running>>

\* The papers submitted to the endpoints: two papers and a stub.
ApiSubmissions == ServerSubmissions \cup { <<"p2", TemplateStub>> }

\* The searches among the requests to the endpoints.
ApiPayloads == { Payload(QueryAttention, 1, Whole(2), Half) }

NextApi ==
    \/ \E s \in ApiSubmissions : CreatePapers(s[1], s[2], TRUE)
    \/ \E id \in Ids : \E paper_data \in PaperData :
          UpdatePaper(id, paper_data, TRUE)
    \/ \E id \in Ids : DeletePaper(id, TRUE)
    \/ AddPapersToChroma
    \/ \E payload \in ApiPayloads : \E env \in RedisDown :
          SearchPapers(payload, env)

\* The requests that create, update and delete papers, with searches, to a
\* server whose Redis is down.
SpecApi == InitServer /\ [][NextApi]_vars

\* ---------------------------------------------------- claims of the endpoints

\* C23, as claimed: after any sequence of create, update and delete requests
\* every identifier is at one position of the index at most, and the lexical
\* channel of a search returns no identifier twice.
C23_IdentifiersUnique ==
    /\ \A i, j \in DOMAIN paper_ids : paper_ids[i] = paper_ids[j] => i = j
    /\ Searched
          => \A i, j \in DOMAIN last.bm25_results :
                last.bm25_results[i].paper_id = last.bm25_results[j].paper_id
                    => i = j

\* C24: after any sequence of create, update and delete requests every
\* identifier of the index is that of a paper of the table that is no stub.
C24_NoStubIndexed ==
    \A p \in DOMAIN paper_ids :
        /\ ~papers[paper_ids[p]].absent
        /\ ~papers[paper_ids[p]].is_stub

\* C24 witness: a paper with a text is submitted under the identifier of a
\* stub, to a server that has indexed another paper.
C24_Witness ==
    /\ last.op = "create_papers"
    /\ last.id = "p2"
    /\ papers["p2"].is_stub
    /\ papers["p2"].title = TitleDeep
    /\ bm25_service = "BM25Service"
    /\ paper_ids # <<>>

\* C26, as claimed: a delete request for a paper of the table succeeds, and
\* after it the paper is neither in the table nor at a position of the
\* index.
C26_DeleteRemoves ==
    [][(last'.op = "delete_paper" /\ ~papers[last'.id].absent)
          => /\ results'.status = 200
             /\ papers'[last'.id].absent
             /\ last'.id \notin Range(paper_ids')]_vars

\* ----------------------------------------------------------- the size limit

\* Searches of any integer size (SearchRequest states no bound for size).
LimitPayloads ==
    { Payload(QueryDeepAttention, -1, Whole(2), Half),
      Payload(QueryDeepAttention, 0, Whole(2), Half),
      Payload(QueryDeepAttention, 1, Whole(2), Half) }

NextLimit ==
    \/ \E s \in ServerSubmissions : CreatePapers(s[1], s[2], TRUE)
    \/ AddPapersToChroma
    \/ \E payload \in LimitPayloads : \E env \in RedisDown :
          SearchPapers(payload, env)

\* Searches of a negative size, of size 0 and of size 1 to a server whose
\* Redis is down.
SpecLimit == InitServer /\ [][NextLimit]_vars

\* C25, as claimed: a search request of any integer size returns at most
\* max(size, 0) results.
C25_SizeLimitEnforced ==
    last.op = "search_papers"
        => Len(results.results) <= Max(last.payload.size, 0)

\* ------------------------------------------------------ claims of the cache

\* C27, as claimed (for the search that follows the mutation at once): when
\* a create, update or delete request has succeeded, the next search
\* request is not answered from the cache, whose entries were all computed
\* before the mutation, also when the deletion of the cached searches
\* raised.
C27_NoStaleCacheHit ==
    [][~( /\ last.op \in {"create_papers", "update_paper", "delete_paper"}
          /\ ~last.raised
          /\ last'.op = "search_papers"
          /\ last'.hit )]_vars

\* Values of citation_weight that round to 1.0: 0.996 and 1.
RoundToOne == {Frac(249, 250), Whole(1)}

\* Values of bert_weight (SearchRequest states no bound for it).
AnyBertWeights == {Whole(2), Whole(200)}

\* The last request with other weights.
Weighted(bert_weight, citation_weight) ==
    [last.payload EXCEPT !.bert_weight = bert_weight,
                         !.citation_weight = citation_weight]

\* C28, as claimed: two search requests with the same cache key, computed
\* with no cache on the same index, collection and table, give the same
\* papers in the same order.
C28_CacheKeySound ==
    (Searched /\ ~last.raised)
        => \A bert_weight \in AnyBertWeights :
           \A cw1 \in RoundToOne : \A cw2 \in RoundToOne :
           \A order \in Orderings(LastUnion) :
              cache_key(Weighted(bert_weight, cw1))
                    = cache_key(Weighted(bert_weight, cw2))
                 => IdsOf(LastResponse(bert_weight, cw1, papers, order).results)
                    = IdsOf(LastResponse(bert_weight, cw2, papers, order).results)

\* C29, as claimed: the fusion gives the same ordered output for the same
\* lexical list, semantic list, limit and weights, whatever the order in
\* which the set all_papers is iterated.
C29_FusionDeterministic ==
    (Searched /\ ~last.raised)
        => \A bert_weight \in BertWeights :
           \A limit \in 1..2 :
           \A order1 \in Orderings(LastUnion) :
           \A order2 \in Orderings(LastUnion) :
              LastFusion(bert_weight, limit, order1)
                 = LastFusion(bert_weight, limit, order2)

\* ------------------------------------------------------ claims of the scores

\* C30: in every state of the index that Build, Add, Remove and Update
\* reach, for every term and every document that holds it, avg_doc_length
\* is above 0 and so is the denominator
\* tf + k1 * (1 - b + b * doc_length / avg_doc_length).
C30_NoDivisionByZero ==
    \A term \in DOMAIN term_freq : \A doc_id \in DOMAIN term_freq[term] :
        /\ avg_doc_length.num > 0
        /\ avg_doc_length.den > 0
        /\ Denominator(Self, doc_id, term) > 0

\* C30 witness: an index that holds a document with no tokens beside one
\* with tokens, after a document was removed and one added.
C30_Witness ==
    /\ last.op = "update"
    /\ last.found
    /\ Len(documents) = 2
    /\ \E p \in DOMAIN documents : documents[p] = <<>>
    /\ \E p \in DOMAIN documents : documents[p] # <<>>

====
